---- MODULE Spec2Model ----
\* nauttaja, a save manager for the game Noita (src/src/main.rs): the persisted
\* gamedb.json, the snapshot directories under saves/, the backup slot, the
\* live save00 directory, and one command-line invocation at a time stepping
\* through its file-system calls. Every call that changes the disk is a step
\* that may succeed, fail part way, or never run because the process was
\* killed before it.
EXTENDS Integers, Sequences, FiniteSets, TLC

\* ---------------------------------------------------------------- bounds
MaxItem == 1      \* files a directory tree may hold
MaxIds == 2       \* storage ids uuid() hands out in one behaviour

Items == 1..MaxItem
Ids == 1..MaxIds
Names == {"a", "b"}

\* ------------------------------------------------------------- constants
NOITA_SAVE_DIRECTORY == "save00"
BaseNames == {NOITA_SAVE_DIRECTORY, "other"}
GameRoot == "R"
RootPaths == {"", GameRoot}

\* ------------------------------------------------------------ file system
\* A directory tree: present or not, and the files it holds.
Absent == [ex |-> FALSE, items |-> {}]
Tree(X) == [ex |-> TRUE, items |-> X]
\* A container directory (saves/<id>, backup): present or not, and the
\* trees copied into it, each under the base name of its source.
AbsentC == [ex |-> FALSE, kids |-> {}]
EmptyC == [ex |-> TRUE, kids |-> {}]

\* gamedb.json: absent, a parsable document, or unparsable bytes.
NoFile == [kind |-> "absent"]
EmptyFile == [kind |-> "empty"]
PartialFile == [kind |-> "partial"]
DocFile(d) == [kind |-> "doc", doc |-> d]
IsDoc(f) == f.kind = "doc"

Config(root) == [noita_root_dir |-> root]
GameDB(s, t, c) == [saves |-> s, trash |-> t, config |-> c]
DefaultGameDB == GameDB(<<>>, <<>>, Config(""))
Save(n, d, t) == [name |-> n, directory |-> d, timestamp |-> t]

VARIABLES
  gamedbFile,   \* ~/.nauttaja/gamedb.json
  dirs,         \* ~/.nauttaja/saves/<id>
  backup,       \* ~/.nauttaja/backup
  live,         \* <root>\save00, per root path
  nextId,       \* next storage id uuid() returns
  clock,        \* Local::now()
  pc,           \* position of the running invocation: "idle" when none runs,
                \* "done" when it has reported and is about to exit
  gamedb,       \* the document the invocation loaded
  srcDir,       \* save_dir_as_save: the directory argument
  curId,        \* save_dir_name / save.directory / dir_to_delete
  pending,      \* update_gamedb: the document handed to fs::write
  result,       \* the message the running invocation printed last
  outcome,      \* what the invocation reported when it ended
  fault,        \* history: the call that failed in this invocation
  pre,          \* history: the command and the disk when this invocation started
  prev,         \* history: the document before the previous invocation, when
                \* that invocation was a remove that moved a record
  captured,     \* history: per storage id, the source tree when its save started
  liveAtLoad    \* history: the live directory when the last load started

vars == <<gamedbFile, dirs, backup, live, nextId, clock, pc, gamedb, srcDir,
          curId, pending, result, outcome, fault, pre, prev, captured, liveAtLoad>>

disk == <<gamedbFile, dirs, backup, live>>
locals == <<gamedb, srcDir, curId, pending, result>>

NoSrc == [ex |-> FALSE, base |-> "", items |-> {}]
NoCapture == [set |-> FALSE, via |-> "", base |-> "", items |-> {}]
NoLoad == [set |-> FALSE, root |-> "", dir |-> Absent]
NoPrev == [name |-> "", file |-> NoFile]
NoPre ==
  [op |-> "none", name |-> "", file |-> NoFile, dirs |-> [i \in Ids |-> AbsentC],
   backup |-> AbsentC, live |-> [r \in RootPaths |-> Absent]]

Snapshot(op, name) ==
  [op |-> op, name |-> name, file |-> gamedbFile, dirs |-> dirs,
   backup |-> backup, live |-> live]

Init ==
  /\ gamedbFile = NoFile
  /\ dirs = [i \in Ids |-> AbsentC]
  /\ backup = AbsentC
  /\ \E X \in SUBSET Items :
       live = [r \in RootPaths |-> IF r = GameRoot THEN Tree(X) ELSE Absent]
  /\ nextId = 1
  /\ clock = 0
  /\ pc = "idle"
  /\ gamedb = DefaultGameDB
  /\ srcDir = NoSrc
  /\ curId = 0
  /\ pending = DefaultGameDB
  /\ result = "none"
  /\ outcome = "none"
  /\ fault = "none"
  /\ pre = NoPre
  /\ prev = NoPrev
  /\ captured = [i \in Ids |-> NoCapture]
  /\ liveAtLoad = NoLoad

\* ------------------------------------------------------------- helpers
Range(s) == {s[i] : i \in 1..Len(s)}
SaveNames(s) == {s[i].name : i \in 1..Len(s)}
\* iter().position(|item| item.name == n): first index, 0 for None
Position(s, n) ==
  IF \E i \in 1..Len(s) : s[i].name = n
    THEN CHOOSE i \in 1..Len(s) : s[i].name = n /\ \A j \in 1..(i - 1) : s[j].name # n
    ELSE 0
\* Vec::remove(index)
RemoveAt(s, i) == SubSeq(s, 1, i - 1) \o SubSeq(s, i + 1, Len(s))

\* The storage ids the records of document file f name
Referenced(f) ==
  IF IsDoc(f)
    THEN {r.directory : r \in Range(f.doc.saves) \cup Range(f.doc.trash)}
    ELSE {}
\* History of the ids no record names is dropped.
Forget(f) == [i \in Ids |-> IF i \in Referenced(f) THEN captured[i] ELSE NoCapture]

\* ------------------------------------------------------------ invocations
\* A new invocation starts.
Begin(op, name) ==
  /\ pc = "idle"
  /\ pre' = Snapshot(op, name)
  /\ UNCHANGED prev

ClearLocals ==
  /\ gamedb' = DefaultGameDB
  /\ srcDir' = NoSrc
  /\ curId' = 0
  /\ pending' = DefaultGameDB
  /\ result' = "none"

\* The invocation ends, reporting out.
Finish(out) ==
  /\ pc' = "done"
  /\ outcome' = out
  /\ ClearLocals

\* .expect(..) on an Err: the invocation panics after the call named by f failed.
Panic(f) ==
  /\ Finish("panic")
  /\ fault' = f

\* main(): every command but set-noita-dir first loads the document and
\* gives up when that fails.
MainLoads == IsDoc(gamedbFile)
CouldNotLoad(op, name) ==
  /\ Begin(op, name)
  /\ ~MainLoads
  /\ Finish("could_not_load")
  /\ UNCHANGED <<disk, nextId, clock, captured, liveAtLoad, fault>>

\* noita_save_dir(config)
noita_save_dir(config) == live[config.noita_root_dir]

\* -------------------------------------------------------- update_gamedb
\* update_gamedb up to fs::write: read the persisted document (the default
\* one when the file does not exist); load_gamedb fails on unparsable bytes.
UpdateCanLoad == gamedbFile.kind \in {"absent", "doc"}
UpdateLoaded == IF gamedbFile.kind = "absent" THEN DefaultGameDB ELSE gamedbFile.doc

\* fs::write(gamedb_file, ..) that fails or is cut short: File::create failed and
\* the file is as it was, or it was truncated and write_all did not complete.
WriteCutShort == {gamedbFile, EmptyFile, PartialFile}
\* fs::write(gamedb_file, ..) that completes
Written(db) == DocFile(db)

\* update_gamedb from fs::write on, for the closure's result db
UpdWrite ==
  /\ pc = "upd_write"
  /\ \/ /\ gamedbFile' = Written(pending)
        /\ IF pre.op = "delete" /\ curId # 0
             THEN /\ pc' = "del_rmdir"
                  /\ UNCHANGED <<locals, outcome, fault>>
             ELSE /\ Finish(result)
                  /\ UNCHANGED fault
     \/ /\ gamedbFile' \in WriteCutShort
        /\ Panic("write_gamedb")
  /\ UNCHANGED <<dirs, backup, live, nextId, clock, pre, prev, captured, liveAtLoad>>

\* A command that is one update_gamedb transaction: r is its closure's result
Transact(op, n, r) ==
  /\ Begin(op, n)
  /\ pc' = "upd_write"
  /\ pending' = r.db
  /\ result' = r.msg
  /\ UNCHANGED <<srcDir, outcome, fault, disk, nextId, clock, captured, liveAtLoad>>

\* Mutant: the root is set in a fresh document.
SetRootFn_Fresh(db, path) ==
  [db |-> [DefaultGameDB EXCEPT !.config = Config(path)], msg |-> "dir_set"]

\* update_noita_dir's closure
SetRootFn(db, path) == [db |-> [db EXCEPT !.config = Config(path)], msg |-> "dir_set"]

SetNoitaDir(path) ==
  IF UpdateCanLoad
    THEN /\ Transact("set-noita-dir", "", SetRootFn(UpdateLoaded, path))
         /\ UNCHANGED <<gamedb, curId>>
    ELSE /\ Begin("set-noita-dir", "")
         /\ Panic("load_gamedb")
         /\ UNCHANGED <<disk, nextId, clock, captured, liveAtLoad>>

\* ------------------------------------------------ remove / restore / delete
\* Mutant: the record is taken off the active list and not put in the trash.
RemoveFn_Drops(db, n) ==
  LET index == Position(db.saves, n) IN
  IF index = 0
    THEN [db |-> db, msg |-> "not_found"]
    ELSE [db |-> [db EXCEPT !.saves = RemoveAt(db.saves, index)], msg |-> "removed"]

\* Mutant: a name that is not active is looked up in the trash and dropped.
RemoveFn_PurgesTrash(db, n) ==
  LET index == Position(db.saves, n)
      trashed == Position(db.trash, n)
  IN
  IF index = 0
    THEN [db |-> IF trashed = 0 THEN db
                 ELSE [db EXCEPT !.trash = RemoveAt(db.trash, trashed)],
          msg |-> "not_found"]
    ELSE [db |-> [db EXCEPT !.saves = RemoveAt(db.saves, index),
                            !.trash = Append(db.trash, db.saves[index])],
          msg |-> "removed"]

\* remove_save's closure: the new document and the message printed
RemoveFn(db, n) ==
  LET index == Position(db.saves, n) IN
  IF index = 0
    THEN [db |-> db, msg |-> "not_found"]
    ELSE [db |-> [db EXCEPT !.saves = RemoveAt(db.saves, index),
                            !.trash = Append(db.trash, db.saves[index])],
          msg |-> "removed"]

\* Mutant: the restored record is stamped anew.
RestoreFn_Restamped(db, n) ==
  LET index == Position(db.trash, n) IN
  IF index = 0
    THEN [db |-> db, msg |-> "not_found"]
    ELSE [db |-> [db EXCEPT !.trash = RemoveAt(db.trash, index),
                            !.saves = Append(db.saves,
                               Save(n, db.trash[index].directory, clock + 1))],
          msg |-> "restored"]

\* restore_save's closure
RestoreFn(db, n) ==
  LET index == Position(db.trash, n) IN
  IF index = 0
    THEN [db |-> db, msg |-> "not_found"]
    ELSE [db |-> [db EXCEPT !.trash = RemoveAt(db.trash, index),
                            !.saves = Append(db.saves, db.trash[index])],
          msg |-> "restored"]

\* Mutant: an active save is deleted like a trashed one.
DeleteFn_Active(db, n) ==
  LET index == Position(db.trash, n)
      active == Position(db.saves, n)
  IN
  IF index # 0
    THEN [db |-> [db EXCEPT !.trash = RemoveAt(db.trash, index)],
          dir |-> db.trash[index].directory,
          msg |-> "deleted"]
  ELSE IF active # 0
    THEN [db |-> [db EXCEPT !.saves = RemoveAt(db.saves, active)],
          dir |-> db.saves[active].directory,
          msg |-> "not_in_trash"]
  ELSE [db |-> db, dir |-> 0, msg |-> "not_found"]

\* Mutant: the directory is handed on for deletion, the record stays.
DeleteFn_KeepRecord(db, n) ==
  LET index == Position(db.trash, n) IN
  IF index = 0
    THEN [db |-> db, dir |-> 0,
          msg |-> IF Position(db.saves, n) # 0 THEN "not_in_trash" ELSE "not_found"]
    ELSE [db |-> db, dir |-> db.trash[index].directory, msg |-> "deleted"]

\* delete_save's closure: also what it leaves in dir_to_delete (0 for None)
DeleteFn(db, n) ==
  LET index == Position(db.trash, n) IN
  IF index = 0
    THEN [db |-> db, dir |-> 0,
          msg |-> IF Position(db.saves, n) # 0 THEN "not_in_trash" ELSE "not_found"]
    ELSE [db |-> [db EXCEPT !.trash = RemoveAt(db.trash, index)],
          dir |-> db.trash[index].directory,
          msg |-> "deleted"]

RemoveSave(n) ==
  /\ MainLoads
  /\ Transact("remove", n, RemoveFn(gamedbFile.doc, n))
  /\ gamedb' = gamedbFile.doc
  /\ UNCHANGED curId

RestoreSave(n) ==
  /\ MainLoads
  /\ Transact("restore", n, RestoreFn(gamedbFile.doc, n))
  /\ gamedb' = gamedbFile.doc
  /\ UNCHANGED curId

DeleteSave(n) ==
  /\ MainLoads
  /\ Transact("delete", n, DeleteFn(gamedbFile.doc, n))
  /\ gamedb' = gamedbFile.doc
  /\ curId' = DeleteFn(gamedbFile.doc, n).dir

\* ------------------------------------------------------ directory calls
\* fs::remove_dir_all on a container that fails part way: what may be left
PartlyRemovedC(c) ==
  {c, EmptyC} \cup
  UNION {{[ex |-> TRUE, kids |-> {<<k[1], Y>>}] : Y \in SUBSET k[2]} : k \in c.kids}
\* fs::remove_dir_all on a tree that fails part way
PartlyRemoved(t) == {Tree(Y) : Y \in SUBSET t.items}

\* copy_dir(from, to) into container c, completed: from lands in c under its
\* own base name (fs_extra::copy_items with the default options)
Copied(src, c) == [ex |-> TRUE, kids |-> c.kids \cup {<<src.base, src.items>>}]
\* copy_dir can complete only from an existing source into an existing
\* directory that has no entry of that name yet
CanCopy(src, c) == src.ex /\ c.ex /\ \A k \in c.kids : k[1] # src.base
\* copy_dir that fails: nothing, or a strict part of the source, arrived
PartlyCopied(src, c) ==
  {c} \cup
  (IF CanCopy(src, c)
     THEN {[ex |-> TRUE, kids |-> c.kids \cup {<<src.base, Y>>}] :
             Y \in (SUBSET src.items) \ {src.items}}
     ELSE {})

\* The source tree `from` names, as copy_dir sees it
Source(t, base) == [ex |-> t.ex, base |-> base, items |-> t.items]
\* The tree under name base inside container c
Kid(c, base) ==
  IF \E k \in c.kids : k[1] = base
    THEN Tree((CHOOSE k \in c.kids : k[1] = base)[2])
    ELSE Absent
\* The root directory as copy_dir's destination: it holds the live save00
RootDir(root) ==
  IF live[root].ex
    THEN [ex |-> TRUE, kids |-> {<<NOITA_SAVE_DIRECTORY, live[root].items>>}]
    ELSE EmptyC

\* delete_save after the transaction: fs::remove_dir_all(saves/<dir>)
DelRmdir ==
  /\ pc = "del_rmdir"
  /\ \/ /\ dirs[curId].ex
        /\ dirs' = [dirs EXCEPT ![curId] = AbsentC]
        /\ Finish("deleted")
        /\ UNCHANGED fault
     \/ /\ \E c \in (IF dirs[curId].ex THEN PartlyRemovedC(dirs[curId]) ELSE {dirs[curId]}) :
             dirs' = [dirs EXCEPT ![curId] = c]
        /\ Panic("remove_save_dir")
  /\ UNCHANGED <<gamedbFile, backup, live, nextId, clock, pre, prev, captured, liveAtLoad>>

\* ---------------------------------------------------------- save / import
\* Mutant: only the active list is searched.
ExistsMsg_ActiveOnly(db, n) == IF n \in SaveNames(db.saves) THEN "exists" ELSE ""

\* Mutant: one message for both lists.
ExistsMsg_OneMessage(db, n) ==
  IF n \in SaveNames(db.saves) \cup SaveNames(db.trash) THEN "exists" ELSE ""

\* save_dir_as_save's two checks: the message printed, "" when the name is free
ExistsMsg(db, n) ==
  IF n \in SaveNames(db.saves) THEN "exists"
  ELSE IF n \in SaveNames(db.trash) THEN "exists_in_trash"
  ELSE ""

\* save_dir_as_save up to copy_dir: the checks, uuid() and
\* fs::create_dir_all(save_dir); src is the directory to copy
SaveStart(op, n, src) ==
  /\ Begin(op, n)
  /\ MainLoads
  /\ UNCHANGED <<gamedbFile, backup, live, clock, liveAtLoad>>
  /\ IF ExistsMsg(gamedbFile.doc, n) # ""
       THEN /\ Finish(ExistsMsg(gamedbFile.doc, n))
            /\ UNCHANGED <<dirs, nextId, captured, fault>>
       ELSE /\ nextId <= MaxIds
            /\ nextId' = nextId + 1
            /\ captured' = [captured EXCEPT ![nextId] =
                 [set |-> TRUE, via |-> op, base |-> src.base,
                  items |-> IF src.ex THEN src.items ELSE {}]]
            /\ \/ /\ dirs' = [dirs EXCEPT ![nextId] = EmptyC]
                  /\ pc' = "save_copy"
                  /\ curId' = nextId
                  /\ gamedb' = gamedbFile.doc
                  /\ srcDir' = src
                  /\ UNCHANGED <<pending, result, outcome, fault>>
               \/ /\ Panic("create_save_dir")
                  /\ UNCHANGED dirs

\* save_game: the source is the live save00 of the configured root
SaveGame(n) ==
  /\ MainLoads
  /\ SaveStart("save", n,
       Source(noita_save_dir(gamedbFile.doc.config), NOITA_SAVE_DIRECTORY))

\* import_save: the source is the directory argument
ImportSave(n, src) == SaveStart("import", n, src)

\* save_dir_as_save's closure: push the new record
PushFn(db, n, dir, t) == [db EXCEPT !.saves = Append(db.saves, Save(n, dir, t))]

\* timestamp(): the local time, one tick after the save before
timestamp == clock + 1

\* Mutant: the result of copy_dir is ignored and the record is committed.
SaveCopy_Unchecked ==
  /\ pc = "save_copy"
  /\ \/ /\ CanCopy(srcDir, dirs[curId])
        /\ dirs' = [dirs EXCEPT ![curId] = Copied(srcDir, dirs[curId])]
     \/ \E c \in PartlyCopied(srcDir, dirs[curId]) :
          dirs' = [dirs EXCEPT ![curId] = c]
  /\ clock' = timestamp
  /\ pending' = PushFn(gamedbFile.doc, pre.name, curId, timestamp)
  /\ result' = IF pre.op = "save" THEN "saved" ELSE "imported"
  /\ pc' = "upd_write"
  /\ UNCHANGED <<gamedb, srcDir, curId, outcome, fault>>
  /\ UNCHANGED <<gamedbFile, backup, live, nextId, pre, prev, captured, liveAtLoad>>

\* copy_dir(directory, save_dir), then update_gamedb up to fs::write
SaveCopy ==
  /\ pc = "save_copy"
  /\ \/ /\ CanCopy(srcDir, dirs[curId])
        /\ dirs' = [dirs EXCEPT ![curId] = Copied(srcDir, dirs[curId])]
        /\ clock' = timestamp
        /\ pending' = PushFn(gamedbFile.doc, pre.name, curId, timestamp)
        /\ result' = IF pre.op = "save" THEN "saved" ELSE "imported"
        /\ pc' = "upd_write"
        /\ UNCHANGED <<gamedb, srcDir, curId, outcome, fault>>
     \/ /\ \E c \in PartlyCopied(srcDir, dirs[curId]) :
             dirs' = [dirs EXCEPT ![curId] = c]
        /\ Panic("copy_to_save")
        /\ UNCHANGED clock
  /\ UNCHANGED <<gamedbFile, backup, live, nextId, pre, prev, captured, liveAtLoad>>

\* ------------------------------------------------------------------ load
\* Mutant: the first active record is taken, whatever its name.
FindSave_First(db, n) == IF Len(db.saves) > 0 THEN 1 ELSE 0

\* Mutant: a name that is not found falls back on the first active record.
FindSave_Fallback(db, n) ==
  IF Position(db.saves, n) # 0 THEN Position(db.saves, n)
  ELSE IF Len(db.saves) > 0 THEN 1 ELSE 0

\* load_save's find: the index of the record to load, 0 when not found
FindSave(db, n) == Position(db.saves, n)

\* load_save up to the first file-system change
LoadSave(n) ==
  /\ Begin("load", n)
  /\ MainLoads
  /\ LET db == gamedbFile.doc
         index == FindSave(db, n)
     IN /\ liveAtLoad' = [set |-> TRUE, root |-> db.config.noita_root_dir,
                          dir |-> noita_save_dir(db.config)]
        /\ IF index = 0 \/ ~dirs[db.saves[index].directory].ex
             THEN Finish("not_found")
             ELSE /\ pc' = IF backup.ex THEN "load_rm_backup" ELSE "load_mk_backup"
                  /\ gamedb' = db
                  /\ curId' = db.saves[index].directory
                  /\ UNCHANGED <<srcDir, pending, result, outcome>>
  /\ UNCHANGED <<disk, nextId, clock, captured, fault>>

\* Mutant: an old backup is kept, and the new one is never taken.
LoadRmBackup_KeepOld ==
  /\ pc = "load_rm_backup"
  /\ pc' = "load_rm_live"
  /\ UNCHANGED <<locals, outcome, fault>>
  /\ UNCHANGED <<disk, nextId, clock, pre, prev, captured, liveAtLoad>>

\* step 1: fs::remove_dir_all(backup_dir)
LoadRmBackup ==
  /\ pc = "load_rm_backup"
  /\ \/ /\ backup' = AbsentC
        /\ pc' = "load_mk_backup"
        /\ UNCHANGED <<locals, outcome, fault>>
     \/ /\ backup' \in PartlyRemovedC(backup)
        /\ Panic("remove_backup")
  /\ UNCHANGED <<gamedbFile, dirs, live, nextId, clock, pre, prev, captured, liveAtLoad>>

\* Mutant: the live directory is deleted as soon as the backup slot exists.
LoadMkBackup_LiveFirst ==
  /\ pc = "load_mk_backup"
  /\ \/ /\ backup' = EmptyC
        /\ live' = [live EXCEPT ![gamedb.config.noita_root_dir] = Absent]
        /\ pc' = "load_copy_backup"
        /\ UNCHANGED <<locals, outcome, fault>>
     \/ /\ Panic("create_backup")
        /\ UNCHANGED <<backup, live>>
  /\ UNCHANGED <<gamedbFile, dirs, nextId, clock, pre, prev, captured, liveAtLoad>>

\* step 2, first half: fs::create_dir(backup_dir)
LoadMkBackup ==
  /\ pc = "load_mk_backup"
  /\ \/ /\ backup' = EmptyC
        /\ pc' = "load_copy_backup"
        /\ UNCHANGED <<locals, outcome, fault>>
     \/ /\ Panic("create_backup")
        /\ UNCHANGED backup
  /\ UNCHANGED <<gamedbFile, dirs, live, nextId, clock, pre, prev, captured, liveAtLoad>>

\* Mutant: the result of the backup copy is ignored and load goes on.
LoadCopyBackup_Unchecked ==
  /\ pc = "load_copy_backup"
  /\ LET src == Source(noita_save_dir(gamedb.config), NOITA_SAVE_DIRECTORY) IN
     \/ /\ CanCopy(src, backup)
        /\ backup' = Copied(src, backup)
     \/ backup' \in PartlyCopied(src, backup)
  /\ pc' = "load_rm_live"
  /\ UNCHANGED <<locals, outcome, fault>>
  /\ UNCHANGED <<gamedbFile, dirs, live, nextId, clock, pre, prev, captured, liveAtLoad>>

\* Mutant: the backup is taken of the snapshot, not of the live directory.
LoadCopyBackup_FromSnapshot ==
  /\ pc = "load_copy_backup"
  /\ LET src == Source(Kid(dirs[curId], NOITA_SAVE_DIRECTORY), NOITA_SAVE_DIRECTORY) IN
     \/ /\ CanCopy(src, backup)
        /\ backup' = Copied(src, backup)
        /\ pc' = "load_rm_live"
        /\ UNCHANGED <<locals, outcome, fault>>
     \/ /\ backup' \in PartlyCopied(src, backup)
        /\ Panic("copy_to_backup")
  /\ UNCHANGED <<gamedbFile, dirs, live, nextId, clock, pre, prev, captured, liveAtLoad>>

\* step 2, second half: copy_dir(noita_save_dir(config), backup_dir)
LoadCopyBackup ==
  /\ pc = "load_copy_backup"
  /\ LET src == Source(noita_save_dir(gamedb.config), NOITA_SAVE_DIRECTORY) IN
     \/ /\ CanCopy(src, backup)
        /\ backup' = Copied(src, backup)
        /\ pc' = "load_rm_live"
        /\ UNCHANGED <<locals, outcome, fault>>
     \/ /\ backup' \in PartlyCopied(src, backup)
        /\ Panic("copy_to_backup")
  /\ UNCHANGED <<gamedbFile, dirs, live, nextId, clock, pre, prev, captured, liveAtLoad>>

\* step 3: fs::remove_dir_all(noita_save_dir(config))
LoadRmLive ==
  /\ pc = "load_rm_live"
  /\ LET root == gamedb.config.noita_root_dir IN
     \/ /\ live[root].ex
        /\ live' = [live EXCEPT ![root] = Absent]
        /\ pc' = "load_copy_in"
        /\ UNCHANGED <<locals, outcome, fault>>
     \/ /\ \E t \in (IF live[root].ex THEN PartlyRemoved(live[root]) ELSE {live[root]}) :
             live' = [live EXCEPT ![root] = t]
        /\ Panic("remove_live")
  /\ UNCHANGED <<gamedbFile, dirs, backup, nextId, clock, pre, prev, captured, liveAtLoad>>

\* Mutant: the snapshot is moved, not copied, into the root.
LoadCopyIn_Moves ==
  /\ pc = "load_copy_in"
  /\ LET root == gamedb.config.noita_root_dir
         src == Source(Kid(dirs[curId], NOITA_SAVE_DIRECTORY), NOITA_SAVE_DIRECTORY)
     IN
     \/ /\ CanCopy(src, RootDir(root))
        /\ live' = [live EXCEPT ![root] =
                      Kid(Copied(src, RootDir(root)), NOITA_SAVE_DIRECTORY)]
        /\ dirs' = [dirs EXCEPT ![curId] =
                      [ex |-> TRUE,
                       kids |-> {k \in dirs[curId].kids : k[1] # NOITA_SAVE_DIRECTORY}]]
        /\ Finish("loaded")
        /\ UNCHANGED fault
     \/ /\ \E c \in PartlyCopied(src, RootDir(root)) :
             live' = [live EXCEPT ![root] = Kid(c, NOITA_SAVE_DIRECTORY)]
        /\ Panic("copy_to_live")
        /\ UNCHANGED dirs
  /\ UNCHANGED <<gamedbFile, backup, nextId, clock, pre, prev, captured, liveAtLoad>>

\* step 4: copy_dir(save_dir.join("save00"), config.noita_root_dir)
LoadCopyIn ==
  /\ pc = "load_copy_in"
  /\ LET root == gamedb.config.noita_root_dir
         src == Source(Kid(dirs[curId], NOITA_SAVE_DIRECTORY), NOITA_SAVE_DIRECTORY)
     IN
     \/ /\ CanCopy(src, RootDir(root))
        /\ live' = [live EXCEPT ![root] =
                      Kid(Copied(src, RootDir(root)), NOITA_SAVE_DIRECTORY)]
        /\ Finish("loaded")
        /\ UNCHANGED fault
     \/ /\ \E c \in PartlyCopied(src, RootDir(root)) :
             live' = [live EXCEPT ![root] = Kid(c, NOITA_SAVE_DIRECTORY)]
        /\ Panic("copy_to_live")
  /\ UNCHANGED <<gamedbFile, dirs, backup, nextId, clock, pre, prev, captured, liveAtLoad>>

\* ------------------------------------------------------------ environment
\* The game rewrites its save00 while no invocation runs.
GameWrites(X) ==
  /\ pc = "idle"
  /\ live[GameRoot] # Tree(X)
  /\ live' = [live EXCEPT ![GameRoot] = Tree(X)]
  /\ liveAtLoad' = NoLoad
  /\ UNCHANGED <<gamedbFile, dirs, backup, nextId, clock, pc, locals, outcome,
                 fault, pre, prev, captured>>

\* The directories import is pointed at
ImportSources == {[ex |-> TRUE, base |-> b, items |-> Items] : b \in BaseNames}

\* The process is killed between two calls: nothing is reported.
Kill ==
  /\ pc \notin {"idle", "done"}
  /\ pc' = "idle"
  /\ ClearLocals
  /\ outcome' = "none"
  /\ fault' = "none"
  /\ pre' = NoPre
  /\ prev' = NoPrev
  /\ captured' = Forget(gamedbFile)
  /\ UNCHANGED <<disk, nextId, clock, liveAtLoad>>

\* The process exits.
Exit ==
  /\ pc = "done"
  /\ pc' = "idle"
  /\ outcome' = "none"
  /\ fault' = "none"
  /\ pre' = NoPre
  /\ prev' = IF pre.op = "remove" /\ outcome = "removed"
               THEN [name |-> pre.name, file |-> pre.file]
               ELSE NoPrev
  /\ captured' = Forget(gamedbFile)
  /\ UNCHANGED <<disk, nextId, clock, locals, liveAtLoad>>

Next ==
  \/ \E p \in RootPaths : SetNoitaDir(p)
  \/ \E op \in {"save", "import", "load", "remove", "restore", "delete"}, n \in Names :
       CouldNotLoad(op, n)
  \/ \E n \in Names : SaveGame(n)
  \/ \E n \in Names, src \in ImportSources : ImportSave(n, src)
  \/ \E n \in Names : LoadSave(n)
  \/ \E n \in Names : RemoveSave(n)
  \/ \E n \in Names : RestoreSave(n)
  \/ \E n \in Names : DeleteSave(n)
  \/ SaveCopy
  \/ LoadRmBackup
  \/ LoadMkBackup
  \/ LoadCopyBackup
  \/ LoadRmLive
  \/ LoadCopyIn
  \/ UpdWrite
  \/ DelRmdir
  \/ \E X \in SUBSET Items : GameWrites(X)
  \/ Kill
  \/ Exit

Spec == Init /\ [][Next]_vars
\* ================================================================ claims
\* The records of the persisted document, active then trashed
Records(f) == f.doc.saves \o f.doc.trash
\* The root the running invocation was configured with
PreRoot == pre.file.doc.config.noita_root_dir
\* Container c holds exactly one complete copy of tree t under save00
HoldsCopy(c, t) == c = [ex |-> TRUE, kids |-> {<<NOITA_SAVE_DIRECTORY, t.items>>}]
LoadFailedAt(f) == pc = "done" /\ pre.op = "load" /\ outcome = "panic" /\ fault = f

\* C1: whatever happened to a load (completed, failed at any step, killed
\* between two steps) and whatever commands ran after it, the live directory
\* as it was when the most recent load started is still, whole, in the
\* live-state location or in the backup slot, until the game next writes. (A
\* load started with no live directory has nothing to keep.)
C1_PreLoadStateSurvives ==
  (liveAtLoad.set /\ liveAtLoad.dir.ex) =>
     \/ live[liveAtLoad.root] = liveAtLoad.dir
     \/ Kid(backup, NOITA_SAVE_DIRECTORY) = liveAtLoad.dir

\* A load that failed after the destructive step: the live directory is no
\* longer what it was, the backup slot is.
C1_Witness ==
  /\ pc = "done" /\ pre.op = "load" /\ fault \in {"remove_live", "copy_to_live"}
  /\ liveAtLoad.set /\ liveAtLoad.dir.ex
  /\ live[liveAtLoad.root] # liveAtLoad.dir
  /\ Kid(backup, NOITA_SAVE_DIRECTORY) = liveAtLoad.dir

\* C2: no two records of the active and trashed lists together have the
\* same name.
C2_NamesUnique ==
  IsDoc(gamedbFile) =>
    \A i, j \in 1..Len(Records(gamedbFile)) :
      i # j => Records(gamedbFile)[i].name # Records(gamedbFile)[j].name

\* A save under a name that sits in the trash has just been turned down,
\* with another record active.
C2_Witness ==
  /\ pc = "done" /\ pre.op \in {"save", "import"} /\ outcome = "exists_in_trash"
  /\ IsDoc(gamedbFile)
  /\ Len(gamedbFile.doc.saves) = 1 /\ Len(gamedbFile.doc.trash) = 1

\* C3: when step 4 of load (copying the snapshot into the live-state
\* location) fails, the backup slot holds exactly the live directory as it
\* was when the load started.
C3_BackupAfterFailedCopyIn ==
  LoadFailedAt("copy_to_live") => HoldsCopy(backup, pre.live[PreRoot])

C3_Witness ==
  /\ LoadFailedAt("copy_to_live")
  /\ pre.backup.ex
  /\ pre.backup # backup
  /\ live[PreRoot] # pre.live[PreRoot]

\* C4 as claimed: when step 2 of load fails, the live directory, the
\* document, every snapshot directory and the previous contents of the
\* backup slot are all as before the load.
C4_Step2FailureLeavesAllUnchanged ==
  (LoadFailedAt("create_backup") \/ LoadFailedAt("copy_to_backup")) =>
     /\ live = pre.live
     /\ gamedbFile = pre.file
     /\ dirs = pre.dirs
     /\ pre.backup.ex => backup = pre.backup

\* C4 amended: when step 2 of load fails, the live directory, the document
\* and every snapshot directory are as before the load; the backup slot is
\* not: step 1 deleted what it held, and it is left absent, empty or with an
\* incomplete copy of the live directory.
C4_Step2FailureSparesLiveAndStore ==
  (LoadFailedAt("create_backup") \/ LoadFailedAt("copy_to_backup")) =>
     /\ live = pre.live
     /\ gamedbFile = pre.file
     /\ dirs = pre.dirs
     /\ \/ backup = AbsentC
        \/ backup = EmptyC
        \/ \E Y \in SUBSET pre.live[PreRoot].items :
             /\ Y # pre.live[PreRoot].items
             /\ backup = [ex |-> TRUE, kids |-> {<<NOITA_SAVE_DIRECTORY, Y>>}]

\* The backup copy failed part way, over a backup slot that held a whole
\* earlier backup.
C4_Witness ==
  /\ LoadFailedAt("copy_to_backup")
  /\ pre.backup.kids # {}
  /\ backup # pre.backup
  /\ live[PreRoot].ex

\* C5: a reader of gamedb.json never finds it empty or partly written, and a
\* transaction that fails leaves the document it found.
C5_ReaderSeesWholeDocument ==
  /\ gamedbFile.kind \in {"absent", "doc"}
  /\ (pc = "done" /\ outcome = "panic" /\ fault = "write_gamedb") => gamedbFile = pre.file

\* C6: every record of the persisted document names a storage directory
\* that exists and holds the whole of the source it was saved from.
C6_RecordsHaveTheirData ==
  IsDoc(gamedbFile) =>
    \A i \in 1..Len(Records(gamedbFile)) :
      LET id == Records(gamedbFile)[i].directory IN
      /\ captured[id].set
      /\ dirs[id] = [ex |-> TRUE, kids |-> {<<captured[id].base, captured[id].items>>}]

\* A save failed in its copy step and left a directory no record names,
\* next to a record whose directory is whole.
C6_Witness ==
  /\ pc = "done" /\ pre.op \in {"save", "import"} /\ fault = "copy_to_save"
  /\ IsDoc(gamedbFile)
  /\ Len(Records(gamedbFile)) = 1
  /\ \E i \in Ids : dirs[i].ex /\ i \notin Referenced(gamedbFile)

\* C7: a load that succeeds on a save made by `save` leaves the live
\* directory holding exactly what it held when that save was made.
C7_LoadGivesBackWhatSaveCaptured ==
  (pc = "done" /\ pre.op = "load" /\ outcome = "loaded") =>
    LET db == pre.file.doc
        id == db.saves[Position(db.saves, pre.name)].directory
    IN /\ Position(db.saves, pre.name) # 0
       /\ captured[id].via = "save" => live[PreRoot] = Tree(captured[id].items)

\* The live directory had changed since the save, and the load brought the
\* saved contents back.
C7_Witness ==
  /\ pc = "done" /\ pre.op = "load" /\ outcome = "loaded"
  /\ Position(pre.file.doc.saves, pre.name) # 0
  /\ captured[pre.file.doc.saves[Position(pre.file.doc.saves, pre.name)].directory].via = "save"
  /\ pre.live[PreRoot] # live[PreRoot]
  /\ Len(pre.file.doc.saves) = 2

\* C8: remove(a) then restore(a) leaves a's record, with the storage id and
\* the timestamp it had, in the active list and not in the trashed list, and
\* every other record in the list it was in.
C8_RemoveThenRestore ==
  (pc = "done" /\ pre.op = "restore" /\ outcome = "restored" /\ prev.name = pre.name) =>
    LET d0 == prev.file.doc
        d == gamedbFile.doc
        a == pre.name
        r0 == d0.saves[Position(d0.saves, a)]
    IN /\ r0 \in Range(d.saves)
       /\ a \notin SaveNames(d.trash)
       /\ \A x \in Range(Records(prev.file)) \cup Range(Records(gamedbFile)) :
            x.name # a =>
              /\ x \in Range(d0.saves) <=> x \in Range(d.saves)
              /\ x \in Range(d0.trash) <=> x \in Range(d.trash)

C8_Witness ==
  /\ pc = "done" /\ pre.op = "restore" /\ outcome = "restored" /\ prev.name = pre.name
  /\ Len(Records(gamedbFile)) = 2

\* C9: delete(a) while a is active and not trashed is turned down: the
\* document and every snapshot directory are as before.
C9_DeleteOfActiveRejected ==
  (/\ pc = "done" /\ pre.op = "delete" /\ outcome # "panic"
   /\ IsDoc(pre.file)
   /\ pre.name \in SaveNames(pre.file.doc.saves)
   /\ pre.name \notin SaveNames(pre.file.doc.trash)) =>
     /\ outcome = "not_in_trash"
     /\ gamedbFile = pre.file
     /\ dirs = pre.dirs

C9_Witness ==
  /\ pc = "done" /\ pre.op = "delete" /\ outcome = "not_in_trash"
  /\ pre.name \in SaveNames(gamedbFile.doc.saves)
  /\ Len(gamedbFile.doc.trash) = 1

\* C10: remove(a) then a delete(a) that succeeds leaves no record named a
\* and no storage directory of a's record; and while delete runs, a storage
\* directory is touched only once the persisted document no longer names it.
C10_RemoveThenDelete ==
  /\ (pc = "done" /\ pre.op = "delete" /\ outcome = "deleted" /\ prev.name = pre.name) =>
       LET d0 == prev.file.doc
           id == d0.saves[Position(d0.saves, pre.name)].directory
       IN /\ IsDoc(gamedbFile)
          /\ pre.name \notin SaveNames(Records(gamedbFile))
          /\ ~dirs[id].ex
  /\ pre.op = "delete" =>
       \A i \in Ids : dirs[i] # pre.dirs[i] =>
          IsDoc(gamedbFile) /\ i \notin Referenced(gamedbFile)

C10_Witness ==
  /\ pc = "done" /\ pre.op = "delete" /\ outcome = "deleted" /\ prev.name = pre.name
  /\ Len(Records(gamedbFile)) = 1

\* The disk as the running invocation found it
PreDisk == <<pre.file, pre.dirs, pre.backup, pre.live>>
\* The external root is not set: no document, or one whose root is the default
RootUnset(f) == f = NoFile \/ (IsDoc(f) /\ f.doc.config = DefaultGameDB.config)

\* C11: while the external root is not set (no persisted document, or one
\* whose root is the unset default), every command but set-noita-dir is
\* turned away with the configuration error and changes neither the
\* document nor any directory.
C11_UnsetRootBlocksEverything ==
  (pre.op \notin {"none", "set-noita-dir"} /\ RootUnset(pre.file)) =>
     /\ disk = PreDisk
     /\ pc = "done"
     /\ outcome = "could_not_load"

\* C12: after every load that succeeds, the backup slot holds exactly the
\* live directory as it was just before the load, with nothing of an earlier
\* backup left in it, the live directory holds the snapshot, and the
\* persisted document, which has no entry for the backup slot, is as before.
C12_BackupIsPreLoadLive ==
  (pc = "done" /\ pre.op = "load" /\ outcome = "loaded") =>
    LET db == pre.file.doc
        id == db.saves[Position(db.saves, pre.name)].directory
    IN /\ Position(db.saves, pre.name) # 0
       /\ pre.live[PreRoot].ex
       /\ HoldsCopy(backup, pre.live[PreRoot])
       /\ live[PreRoot] = Kid(dirs[id], NOITA_SAVE_DIRECTORY)
       /\ gamedbFile = pre.file
       /\ DOMAIN gamedbFile.doc = {"saves", "trash", "config"}

\* save at v1, the game moves on to v2, load: the live directory is back at
\* v1 and the backup slot, which held an earlier backup, now holds v2.
C12_Witness ==
  /\ pc = "done" /\ pre.op = "load" /\ outcome = "loaded"
  /\ pre.backup.kids # {}
  /\ ~HoldsCopy(pre.backup, pre.live[PreRoot])
  /\ HoldsCopy(backup, pre.live[PreRoot])
  /\ live[PreRoot] # pre.live[PreRoot]

\* C13: a save or an import under a name that is in the active or in the
\* trashed list is turned down with an 'already exists' message that tells
\* the active list from the trash; no storage directory is created and the
\* persisted document is unchanged.
C13_TakenNameRejected ==
  (/\ pre.op \in {"save", "import"}
   /\ IsDoc(pre.file)
   /\ pre.name \in SaveNames(Records(pre.file))) =>
     /\ pc = "done"
     /\ outcome = IF pre.name \in SaveNames(pre.file.doc.saves)
                    THEN "exists" ELSE "exists_in_trash"
     /\ disk = PreDisk

\* An import under the name of a trashed save has been turned down, after a
\* save under the name of an active one could have been.
C13_Witness ==
  /\ pc = "done" /\ pre.op = "import" /\ outcome = "exists_in_trash"
  /\ IsDoc(gamedbFile)
  /\ Len(gamedbFile.doc.saves) = 1 /\ Len(gamedbFile.doc.trash) = 1
  /\ disk = PreDisk

C15_LoadSparesStoreAndSnapshots ==
  pre.op = "load" => (gamedbFile = pre.file /\ dirs = pre.dirs)

\* Loads that changed the backup slot and the live directory: one that
\* succeeded, or one that failed after the destructive step.
C15_Witness ==
  /\ pc = "done" /\ pre.op = "load"
  /\ outcome = "loaded" \/ fault \in {"remove_live", "copy_to_live"}
  /\ backup # pre.backup
  /\ live # pre.live
  /\ \E i \in Ids : dirs[i].ex

\* C16: a remove of a name that is not in the active list, and a restore of
\* a name that is not in the trashed list, report that the name was not
\* found and return without an error; the lists and the configuration are as
\* before, and no directory is touched at any step.
C16_UnknownNameIsNoOp ==
  /\ (/\ pc = "done" /\ outcome # "panic"
      /\ IsDoc(pre.file)
      /\ \/ pre.op = "remove" /\ pre.name \notin SaveNames(pre.file.doc.saves)
         \/ pre.op = "restore" /\ pre.name \notin SaveNames(pre.file.doc.trash)) =>
        /\ outcome = "not_found"
        /\ gamedbFile = pre.file
  /\ pre.op \in {"remove", "restore"} =>
        (dirs = pre.dirs /\ backup = pre.backup /\ live = pre.live)

\* A remove of a name that is only in the trash has reported not found, next
\* to an active save.
C16_Witness ==
  /\ pc = "done" /\ pre.op = "remove" /\ outcome = "not_found"
  /\ pre.name \in SaveNames(gamedbFile.doc.trash)
  /\ Len(gamedbFile.doc.saves) = 1
  /\ gamedbFile = pre.file

\* C17: in every step from one persisted document to the next, a record
\* enters the active list only as a new record (save, import: a name and a
\* storage id no record has) or from the trash (restore); it enters the
\* trash only from the active list (remove); it leaves both lists only from
\* the trash, by delete; and, records being compared whole, no step changes
\* the name, the storage id or the timestamp of a record.
C17_RecordLifecycle ==
  [][(IsDoc(gamedbFile) /\ IsDoc(gamedbFile')) =>
       LET A0 == Range(gamedbFile.doc.saves)
           T0 == Range(gamedbFile.doc.trash)
           A1 == Range(gamedbFile'.doc.saves)
           T1 == Range(gamedbFile'.doc.trash)
       IN /\ \A x \in A1 \ A0 :
               \/ x \in T0 /\ pre.op = "restore"
               \/ /\ pre.op \in {"save", "import"}
                  /\ x.name \notin SaveNames(Records(gamedbFile))
                  /\ x.directory \notin Referenced(gamedbFile)
          /\ \A x \in T1 \ T0 : x \in A0 /\ pre.op = "remove"
          /\ \A x \in (A0 \cup T0) \ (A1 \cup T1) : x \in T0 /\ pre.op = "delete"
          /\ A1 \cap T1 = {}
          /\ Len(Records(gamedbFile')) = Cardinality(A1 \cup T1)]_vars

\* A record that went active, trashed and active again sits next to one that
\* went active and trashed.
C17_Witness ==
  /\ pc = "done" /\ pre.op = "restore" /\ outcome = "restored"
  /\ IsDoc(gamedbFile)
  /\ Len(gamedbFile.doc.saves) = 1 /\ Len(gamedbFile.doc.trash) = 1
  /\ gamedbFile.doc.saves[1] \in Range(pre.file.doc.trash)

\* C18: a load that fails at step 3 (removing the live directory) or at
\* step 4 (copying the snapshot in) ends with a warning of its own that
\* points at the backup slot, not with the outcome failures at the other
\* steps end with; and after a failure at step 3 nothing of the snapshot has
\* been copied in.
C18_LateLoadFailureWarns ==
  /\ (pc = "done" /\ pre.op = "load" /\ fault \in {"remove_live", "copy_to_live"}) =>
        outcome \notin {"panic", "could_not_load", "not_found", "loaded"}
  /\ (pc = "done" /\ pre.op = "load" /\ fault = "remove_live") =>
        live[PreRoot] \in PartlyRemoved(pre.live[PreRoot])

\* C19: for a save made by import from a directory of any name, a load that
\* passes its not-found checks can complete: when it comes to step 4, with
\* the live directory removed, the directory it copies from is there and
\* holds what was imported, and a load that reports success has left
\* exactly that in the live directory.
C19_ImportedSaveLoads ==
  /\ (pc = "load_copy_in" /\ captured[curId].via = "import") =>
        Kid(dirs[curId], NOITA_SAVE_DIRECTORY) = Tree(captured[curId].items)
  /\ (pc = "done" /\ pre.op = "load" /\ outcome = "loaded") =>
        LET db == pre.file.doc
            index == Position(db.saves, pre.name)
        IN (index # 0 /\ captured[db.saves[index].directory].via = "import") =>
              live[PreRoot] = Tree(captured[db.saves[index].directory].items)

\* C20: set-noita-dir on an existing document changes only the configured
\* root: the active and the trashed list are as before, and no snapshot
\* directory, backup slot or live directory is touched at any step.
C20_SetRootChangesOnlyRoot ==
  /\ (/\ pc = "done" /\ pre.op = "set-noita-dir" /\ outcome # "panic"
      /\ IsDoc(pre.file)) =>
        /\ outcome = "dir_set"
        /\ IsDoc(gamedbFile)
        /\ gamedbFile.doc.saves = pre.file.doc.saves
        /\ gamedbFile.doc.trash = pre.file.doc.trash
        /\ DOMAIN gamedbFile.doc.config = {"noita_root_dir"}
  /\ pre.op = "set-noita-dir" =>
        (dirs = pre.dirs /\ backup = pre.backup /\ live = pre.live)

\* The root has been set to another path in a document with an active and
\* a trashed record, with a backup on disk.
C20_Witness ==
  /\ pc = "done" /\ pre.op = "set-noita-dir" /\ outcome = "dir_set"
  /\ IsDoc(pre.file) /\ gamedbFile # pre.file
  /\ Len(gamedbFile.doc.saves) = 1 /\ Len(gamedbFile.doc.trash) = 1
  /\ backup.ex
====
